---- MODULE Spec2Model ----
(***************************************************************************)
(* Blog backend: the post routes (routes/postRoutes.js), the ownership     *)
(* gate (middleware/authorize.js), the post controller and service         *)
(* (controllers/postController.js, services/postService.js), the Post      *)
(* schema (models/Post.js) and the auth service (services/authService.js). *)
(*                                                                         *)
(* Every await on the document store is one atomic step of the store; the  *)
(* synchronous JavaScript that runs between two awaits touches only the    *)
(* request's own objects and is folded into the step that follows it.      *)
(* Requests run concurrently, one per slot.                                *)
(*                                                                         *)
(* Frontend: AuthProvider (context/AuthContext) and PostView with its      *)
(* ConfirmDialog. Every handler runs to its next await in one step; the    *)
(* services they await settle in any order.                                *)
(***************************************************************************)
EXTENDS Integers, Sequences, FiniteSets, TLC

\* ---------------------------------------------------------------- bounds
\* Posts ever created (ObjectIds handed out by Post.create).
MaxPosts == 2
\* Readings of the server clock (Date.now()) matter only by their order, and
\* MaxPosts documents carry at most MaxPosts different readings.
MaxClock == MaxPosts - 1
\* Post requests the clients send in one run.
MaxRequests == 2
\* register and login calls the clients make in one run.
MaxAuthCalls == 3

\* Request slots: requests in flight at the same time.
Slots == {1, 2}
AuthSlots == {1, 2}
\* Users registered before the post requests start.
Authors == {1, 2}

PostIds == 1..MaxPosts

\* ---------------------------------------------------------------- values
\* JavaScript undefined (a missing body field). Text is a sequence of
\* one-character strings, so no text equals Undefined.
Undefined == <<"undefined">>
\* JavaScript null (findById / findOne finding nothing, req.user unset).
Null == [null |-> TRUE]

\* Path parameter :id as the client sends it: a well-formed ObjectId string
\* (24 hex digits, denoting ObjectId n) or any other string.
ParamInputs == [hex : PostIds] \cup {[raw |-> "abc"]}
NoParam == [none |-> TRUE]

\* Request bodies {title, content, authorId?} the client may send; authorId
\* is either absent or the ObjectId string of a user.
NoField == [absent |-> TRUE]
TitleInputs == {Undefined, <<>>, <<" ">>, <<"a">>, <<" ", "b">>}
\* Content is the rich-text editor's HTML: "x" is text, "<p>" is markup with no text.
ContentInputs == {Undefined, <<>>, <<"x">>, <<"<", "p", ">">>}
BodyInputs == [title : TitleInputs, content : ContentInputs,
               authorId : {NoField} \cup [oid : Authors]]

\* Bearer tokens the client may present.
NoToken == [none |-> TRUE]
TokenInputs ==
  {NoToken, [raw |-> "garbage"]}
    \cup [sub : Authors, sig : {"ok"}, exp : {"live"}]
    \cup {[sub |-> 1, sig |-> "forged", exp |-> "live"],
          [sub |-> 1, sig |-> "ok", exp |-> "expired"]}

VARIABLES
  posts,     \* the posts collection: _id -> document
  deleted,   \* history: ids of the posts a DELETE answered 200 for
  creator,   \* history: id -> the caller authenticated on the POST that made it
  nextId,    \* next ObjectId for a Post document
  clock,     \* server clock as the timestamps plugin last read it
  req,       \* per slot: the request in flight and its response
  arrived,   \* number of post requests received so far
  users,     \* the users collection: set of user documents
  nextUid,   \* next ObjectId for a User document
  areq,      \* per auth slot: the register/login call in flight
  called,    \* number of register/login calls made so far
  auth,         \* browser: AuthProvider's state {user, token, loading}
  localStorage, \* browser: the items 'token' and 'user'
  calls,        \* browser: per slot, the register/login call AuthProvider awaits
  location,     \* browser: the current route
  view,         \* browser: PostView's state
  fetches,      \* browser: ids whose getPostById PostView awaits
  deletes       \* browser: ids whose deletePost PostView awaits

uiVars == <<auth, localStorage, calls, location, view, fetches, deletes>>
vars == <<posts, deleted, creator, nextId, clock, req, arrived, users, nextUid, areq, called,
          uiVars>>
postVars == <<posts, deleted, creator, nextId, clock, req, arrived>>
authVars == <<users, nextUid, areq, called>>

\* ------------------------------------------------------- Post schema (models/Post.js)
IsSpace(c) == c = " "

RECURSIVE TrimLeft(_)
TrimLeft(s) == IF s # <<>> /\ IsSpace(Head(s)) THEN TrimLeft(Tail(s)) ELSE s

RECURSIVE TrimRight(_)
TrimRight(s) ==
  IF s # <<>> /\ IsSpace(s[Len(s)]) THEN TrimRight(SubSeq(s, 1, Len(s) - 1)) ELSE s

\* String.prototype.trim, the setter of `trim: true`.
Trim(s) == TrimRight(TrimLeft(s))

\* The client-side rule for content (frontend postSchema):
\* content.replace(/<[^>]*>/g, '').trim(), every <...> run removed.
RECURSIVE StripTags(_)
StripTags(s) ==
  IF s = <<>> THEN <<>>
  ELSE IF Head(s) = "<" /\ \E k \in 2..Len(s) : s[k] = ">"
    THEN LET close == CHOOSE k \in 2..Len(s) :
                        s[k] = ">" /\ \A j \in 2..(k - 1) : s[j] # ">"
         IN StripTags(SubSeq(s, close + 1, Len(s)))
  ELSE <<Head(s)>> \o StripTags(Tail(s))

\* Mutant: the schema lacks `trim: true`.
CastTitleAsSent(v) == v

\* title: { type: String, trim: true }: the setter runs when the value is cast.
CastTitle(v) == IF v = Undefined THEN v ELSE Trim(v)

\* `required` on a String path: fails for undefined, null and "".
Required(v) == v # Undefined /\ v # <<>>

\* JavaScript `!v` for a string or undefined.
Falsy(v) == v = Undefined \/ v = <<>>

\* A new Post document as `new Post({title, content, authorId})` builds it: the
\* title is cast (trimmed), timestamps: true stamps createdAt from the clock.
NewPost(id, title, content, authorId, now) ==
  [_id |-> id, title |-> CastTitle(title), content |-> content,
   authorId |-> authorId, createdAt |-> now]

\* Document validation: the first failing `required` path, or "" when valid.
ValidatePost(title, content) ==
  IF ~Required(title) THEN "title: Please provide a title"
  ELSE IF ~Required(content) THEN "content: Please provide content"
  ELSE ""

\* ------------------------------------------------------- the document store
\* mongoose casts the id before it queries; a string that is no ObjectId
\* makes the query reject with a CastError.
IsObjectId(p) == "hex" \in DOMAIN p
CastErrorMessage == "Cast to ObjectId failed for value at path _id for model Post"

\* Post.findById(id), for an id that casts.
FindById(store, p) == IF p.hex \in DOMAIN store THEN store[p.hex] ELSE Null

\* .populate('authorId', 'name email'): the referenced user, or null.
PopulateAuthor(uid) ==
  LET m == {u \in users : u._id = uid}
  IN IF m = {} THEN Null
     ELSE LET u == CHOOSE x \in m : TRUE
          IN [_id |-> u._id, name |-> u.name, email |-> u.email]

Populate(doc) == [doc EXCEPT !.authorId = PopulateAuthor(doc.authorId)]

\* Post.find().sort({createdAt: -1}): every stored document once, createdAt
\* descending; the store fixes no order among equal createdAt.
Perms(S) ==
  {f \in [1..Cardinality(S) -> S] :
     \A i, j \in 1..Cardinality(S) : i # j => f[i] # f[j]}

\* Mutant: sort({createdAt: 1}).
SortedByCreatedAtAsc(store, ids) ==
  \A i \in 1..(Len(ids) - 1) :
     store[ids[i]].createdAt <= store[ids[i + 1]].createdAt

SortedByCreatedAtDesc(store, ids) ==
  \A i \in 1..(Len(ids) - 1) :
     store[ids[i]].createdAt >= store[ids[i + 1]].createdAt

FindSorted(store) == {ids \in Perms(DOMAIN store) : SortedByCreatedAtDesc(store, ids)}

\* ------------------------------------------------------- services/postService.js
\* Each service returns [ok, value | error] and the store after its call.
Ok(store, value) == [ok |-> TRUE, value |-> value, store |-> store]
Throw(store, message) == [ok |-> FALSE, error |-> message, store |-> store]

\* getAllPosts, for one order `ids` the store may answer with.
GetAllPostsService(store, ids) ==
  Ok(store, [i \in 1..Len(ids) |-> Populate(store[ids[i]])])

GetPostByIdService(store, p) ==
  IF ~IsObjectId(p) THEN Throw(store, CastErrorMessage)
  ELSE LET post == FindById(store, p)
       IN IF post = Null THEN Throw(store, "Post not found")
          ELSE Ok(store, Populate(post))

\* Mutant: the update sets the title alone.
UpdatePostServiceTitleOnly(store, p, title, content) ==
  LET t == CastTitle(title)
      invalid == ValidatePost(t, content)
  IN IF ~IsObjectId(p) THEN Throw(store, CastErrorMessage)
     ELSE IF invalid # "" THEN Throw(store, "Validation failed: " \o invalid)
     ELSE IF p.hex \notin DOMAIN store THEN Throw(store, "Post not found")
     ELSE LET post == [store[p.hex] EXCEPT !.title = t]
          IN Ok([store EXCEPT ![p.hex] = post], Populate(post))

\* Mutant: findByIdAndUpdate with upsert: true.
UpdatePostServiceUpsert(store, p, title, content) ==
  LET t == CastTitle(title)
      invalid == ValidatePost(t, content)
  IN IF ~IsObjectId(p) THEN Throw(store, CastErrorMessage)
     ELSE IF invalid # "" THEN Throw(store, "Validation failed: " \o invalid)
     ELSE LET post == [_id |-> p.hex, title |-> t, content |-> content,
                       authorId |-> 1, createdAt |-> 0]
              kept == IF p.hex \in DOMAIN store
                        THEN [store[p.hex] EXCEPT !.title = t, !.content = content]
                      ELSE post
          IN Ok([i \in DOMAIN store \cup {p.hex} |-> IF i = p.hex THEN kept ELSE store[i]],
                Populate(kept))

\* updatePost: findByIdAndUpdate(postId, {title, content},
\* {new: true, runValidators: true}).populate(...)
UpdatePostService(store, p, title, content) ==
  LET t == CastTitle(title)
      invalid == ValidatePost(t, content)
  IN IF ~IsObjectId(p) THEN Throw(store, CastErrorMessage)
     ELSE IF invalid # "" THEN Throw(store, "Validation failed: " \o invalid)
     ELSE IF p.hex \notin DOMAIN store THEN Throw(store, "Post not found")
     ELSE LET post == [store[p.hex] EXCEPT !.title = t, !.content = content]
          IN Ok([store EXCEPT ![p.hex] = post], Populate(post))

\* Mutant: findById in place of findByIdAndDelete.
DeletePostServiceKeeps(store, p) ==
  IF ~IsObjectId(p) THEN Throw(store, CastErrorMessage)
  ELSE IF p.hex \notin DOMAIN store THEN Throw(store, "Post not found")
  ELSE Ok(store, store[p.hex])

\* deletePost: findByIdAndDelete(postId)
DeletePostService(store, p) ==
  IF ~IsObjectId(p) THEN Throw(store, CastErrorMessage)
  ELSE IF p.hex \notin DOMAIN store THEN Throw(store, "Post not found")
  ELSE Ok([i \in DOMAIN store \ {p.hex} |-> store[i]], store[p.hex])

\* createPost, first half: Post.create builds and validates the document.
CreatePostDocument(id, title, content, authorId, now) ==
  LET doc == NewPost(id, title, content, authorId, now)
      invalid == ValidatePost(doc.title, doc.content)
  IN IF invalid # "" THEN [ok |-> FALSE, error |-> "Post validation failed: " \o invalid]
     ELSE [ok |-> TRUE, value |-> doc]

\* createPost, second half: the insert reaches the store, then populate.
CreatePostInsert(store, doc) ==
  Ok([i \in DOMAIN store \cup {doc._id} |-> IF i = doc._id THEN doc ELSE store[i]],
     Populate(doc))

\* ------------------------------------------------------- requests
IdleReq == [stage |-> "idle"]

\* A request as express hands it to the first function of its route.
NewReq(method, p) ==
  [stage |-> "run", method |-> method, id |-> p, at |-> 1, ran |-> <<>>,
   user |-> Null, post |-> Null, body |-> Null, doc |-> Null, resp |-> Null]

Methods == {"GET_ALL", "GET", "POST", "PUT", "DELETE"}
HasIdParam(method) == method \in {"GET", "PUT", "DELETE"}

\* Mutant: DELETE /:id registered without the authorize gate.
RouteDeleteUnguarded(method) ==
  CASE method = "GET_ALL" -> <<"getAllPosts">>
    [] method = "GET"     -> <<"getPostById">>
    [] method = "POST"    -> <<"authenticate", "createPost">>
    [] method = "PUT"     -> <<"authenticate", "authorize", "updatePost">>
    [] method = "DELETE"  -> <<"authenticate", "deletePost">>

\* Mutant: PUT /:id registered with the handler ahead of the authorize gate.
RouteHandlerFirst(method) ==
  CASE method = "GET_ALL" -> <<"getAllPosts">>
    [] method = "GET"     -> <<"getPostById">>
    [] method = "POST"    -> <<"authenticate", "createPost">>
    [] method = "PUT"     -> <<"authenticate", "updatePost", "authorize">>
    [] method = "DELETE"  -> <<"authenticate", "authorize", "deletePost">>

\* routes/postRoutes.js: the functions of each route, in order.
Route(method) ==
  CASE method = "GET_ALL" -> <<"getAllPosts">>
    [] method = "GET"     -> <<"getPostById">>
    [] method = "POST"    -> <<"authenticate", "createPost">>
    [] method = "PUT"     -> <<"authenticate", "authorize", "updatePost">>
    [] method = "DELETE"  -> <<"authenticate", "authorize", "deletePost">>

Step(q) == Route(q.method)[q.at]

\* Writing the response is the request's last step and touches nothing
\* shared: the slot is released before any other step is taken.
Responding == \E s \in Slots : req[s].stage = "done"

Running(r, step) == ~Responding /\ req[r].stage = "run" /\ Step(req[r]) = step

\* The function at the head of the route starts to run.
Enter(q) == [q EXCEPT !.ran = Append(@, Step(q))]
\* next(): express runs the following function of the route.
CallNext(q) == [q EXCEPT !.at = @ + 1]
\* res.status(status).json(body)
Json(q, status, body) ==
  [q EXCEPT !.stage = "done", !.resp = [status |-> status, body |-> body]]

\* Mutant: a failure body that carries the message alone.
FailureMessageOnly(message) == [message |-> message]

Failure(message) == [success |-> FALSE, message |-> message]

\* ------------------------------------------------------- middleware/auth.js
\* jwt.verify on the bearer token: the subject, or why it is refused.
VerifyToken(token) ==
  IF "none" \in DOMAIN token THEN [ok |-> FALSE, kind |-> "Missing"]
  ELSE IF "raw" \in DOMAIN token THEN [ok |-> FALSE, kind |-> "Malformed"]
  ELSE IF token.sig # "ok" THEN [ok |-> FALSE, kind |-> "InvalidSignature"]
  ELSE IF token.exp # "live" THEN [ok |-> FALSE, kind |-> "Expired"]
  ELSE [ok |-> TRUE, sub |-> token.sub]

AuthenticateGate(q, token) ==
  LET v == VerifyToken(token)
      q1 == Enter(q)
  IN IF v.ok THEN CallNext([q1 EXCEPT !.user = [_id |-> v.sub]])
     ELSE Json(q1, 401, Failure("Not authorized, token failed"))

\* ------------------------------------------------------- middleware/authorize.js
\* Mutant: the ownership comparison is lost.
IsOwnerAnyone(post, user) == TRUE

\* post.authorId.toString() !== req.user._id.toString()
IsOwner(post, user) == post.authorId = user._id

AuthorizeGate(q, store) ==
  LET q1 == Enter(q)
  IN IF ~IsObjectId(q.id)
       THEN Json(q1, 500, Failure("Error checking authorization"))
     ELSE LET post == FindById(store, q.id)
          IN IF post = Null THEN Json(q1, 404, Failure("Post not found"))
             ELSE IF ~IsOwner(post, q.user)
               THEN Json(q1, 403, Failure("Not authorized to perform this action"))
             ELSE CallNext([q1 EXCEPT !.post = post])

\* ------------------------------------------------------- controllers/postController.js
\* Each controller returns the request with its response, and the store.
Handled(q, store) == [q |-> q, store |-> store]

\* const { title, content } = req.body
Destructure(body) == [title |-> body.title, content |-> body.content]

GetAllPostsController(q, store, ids) ==
  LET res == GetAllPostsService(store, ids)
  IN IF res.ok
       THEN Handled(Json(Enter(q), 200,
                         [success |-> TRUE, count |-> Len(res.value), data |-> res.value]),
                    res.store)
     ELSE Handled(Json(Enter(q), 500, Failure(res.error)), res.store)

GetPostByIdController(q, store) ==
  LET res == GetPostByIdService(store, q.id)
  IN IF res.ok
       THEN Handled(Json(Enter(q), 200, [success |-> TRUE, data |-> res.value]), res.store)
     ELSE Handled(Json(Enter(q), 404, Failure(res.error)), res.store)

\* Mutant: the whole req.body is handed to findByIdAndUpdate.
UpdatePostControllerWholeBody(q, store, body) ==
  LET q1 == [Enter(q) EXCEPT !.body = Destructure(body)]
  IN IF Falsy(body.title) \/ Falsy(body.content)
       THEN Handled(Json(q1, 400, Failure("Please provide title and content")), store)
     ELSE LET res == UpdatePostService(store, q.id, body.title, body.content)
              written == IF body.authorId = NoField THEN res.store
                         ELSE [res.store EXCEPT ![q.id.hex].authorId = body.authorId.oid]
          IN IF res.ok
               THEN Handled(Json(q1, 200,
                                 [success |-> TRUE, message |-> "Post updated successfully",
                                  data |-> Populate(written[q.id.hex])]),
                            written)
             ELSE Handled(Json(q1, 404, Failure(res.error)), res.store)

UpdatePostController(q, store, body) ==
  LET q1 == [Enter(q) EXCEPT !.body = Destructure(body)]
  IN IF Falsy(body.title) \/ Falsy(body.content)
       THEN Handled(Json(q1, 400, Failure("Please provide title and content")), store)
     ELSE LET res == UpdatePostService(store, q.id, body.title, body.content)
          IN IF res.ok
               THEN Handled(Json(q1, 200,
                                 [success |-> TRUE, message |-> "Post updated successfully",
                                  data |-> res.value]),
                            res.store)
             ELSE Handled(Json(q1, 404, Failure(res.error)), res.store)

DeletePostController(q, store) ==
  LET res == DeletePostService(store, q.id)
  IN IF res.ok
       THEN Handled(Json(Enter(q), 200,
                         [success |-> TRUE, message |-> "Post deleted successfully"]),
                    res.store)
     ELSE Handled(Json(Enter(q), 404, Failure(res.error)), res.store)

\* createPost up to the await inside Post.create: the body check, then the
\* document is built (its _id and createdAt are fixed here) and validated.
CreatePostController(q, body, id, now) ==
  LET q1 == [Enter(q) EXCEPT !.body = Destructure(body)]
  IN IF Falsy(body.title) \/ Falsy(body.content)
       THEN Json(q1, 400, Failure("Please provide title and content"))
     ELSE LET made == CreatePostDocument(id, body.title, body.content, q.user._id, now)
          IN IF made.ok THEN [q1 EXCEPT !.stage = "insert", !.doc = made.value]
             ELSE Json(q1, 400, Failure(made.error))

\* createPost after the insert: populate, then the 201.
CreatePostResume(q, store) ==
  LET res == CreatePostInsert(store, q.doc)
  IN Handled(Json(q, 201,
                  [success |-> TRUE, message |-> "Post created successfully",
                   data |-> res.value]),
             res.store)

\* ------------------------------------------------------- post requests: the steps
\* A client sends a request; it takes the lowest free slot.
Arrive(r) ==
  /\ ~Responding
  /\ arrived < MaxRequests
  /\ arrived' = arrived + 1
  /\ req[r] = IdleReq
  /\ \A s \in Slots : s < r => req[s] # IdleReq
  /\ \E method \in Methods :
       /\ method = "POST" =>
            nextId + Cardinality({s \in Slots : req[s].stage = "run"
                                                  /\ req[s].method = "POST"}) <= MaxPosts
       /\ \E p \in (IF HasIdParam(method) THEN ParamInputs ELSE {NoParam}) :
            req' = [req EXCEPT ![r] = NewReq(method, p)]
  /\ UNCHANGED <<posts, deleted, creator, nextId, clock>>
  /\ UNCHANGED authVars
  /\ UNCHANGED uiVars

Authenticate(r) ==
  /\ Running(r, "authenticate")
  /\ \E token \in TokenInputs :
       req' = [req EXCEPT ![r] = AuthenticateGate(req[r], token)]
  /\ UNCHANGED <<posts, deleted, creator, nextId, clock>>
  /\ UNCHANGED <<arrived, authVars>>
  /\ UNCHANGED uiVars

\* The store answers authorize's findById.
Authorize(r) ==
  /\ Running(r, "authorize")
  /\ req' = [req EXCEPT ![r] = AuthorizeGate(req[r], posts)]
  /\ UNCHANGED <<posts, deleted, creator, nextId, clock>>
  /\ UNCHANGED <<arrived, authVars>>
  /\ UNCHANGED uiVars

\* The store answers getAllPosts' find.
GetAllPosts(r) ==
  /\ Running(r, "getAllPosts")
  /\ \E ids \in FindSorted(posts) :
       LET h == GetAllPostsController(req[r], posts, ids)
       IN /\ req' = [req EXCEPT ![r] = h.q]
          /\ posts' = h.store
  /\ UNCHANGED <<deleted, creator, nextId, clock>>
  /\ UNCHANGED <<arrived, authVars>>
  /\ UNCHANGED uiVars

\* The store answers getPostById's findById.
GetPostById(r) ==
  /\ Running(r, "getPostById")
  /\ LET h == GetPostByIdController(req[r], posts)
     IN /\ req' = [req EXCEPT ![r] = h.q]
        /\ posts' = h.store
  /\ UNCHANGED <<deleted, creator, nextId, clock>>
  /\ UNCHANGED <<arrived, authVars>>
  /\ UNCHANGED uiVars

\* createPost runs up to the insert it awaits. The clock it reads has moved on
\* since the last reading, or has not.
ClockReadings == {t \in {clock, clock + 1} : t <= MaxClock}

CreatePost(r) ==
  /\ Running(r, "createPost")
  /\ \E body \in BodyInputs, now \in ClockReadings :
       LET q == CreatePostController(req[r], body, nextId, now)
       IN /\ req' = [req EXCEPT ![r] = q]
          /\ nextId' = IF q.stage = "insert" THEN nextId + 1 ELSE nextId
          /\ clock' = IF q.stage = "insert" THEN now ELSE clock
          /\ creator' = IF q.stage = "insert"
                           THEN [i \in DOMAIN creator \cup {nextId} |->
                                   IF i = nextId THEN req[r].user._id ELSE creator[i]]
                         ELSE creator
  /\ UNCHANGED <<posts, deleted>>
  /\ UNCHANGED <<arrived, authVars>>
  /\ UNCHANGED uiVars

\* The store performs the insert; createPost resumes and answers.
CreatePostStore(r) ==
  /\ ~Responding
  /\ req[r].stage = "insert"
  /\ LET h == CreatePostResume(req[r], posts)
     IN /\ req' = [req EXCEPT ![r] = h.q]
        /\ posts' = h.store
  /\ UNCHANGED <<deleted, creator, nextId, clock>>
  /\ UNCHANGED <<arrived, authVars>>
  /\ UNCHANGED uiVars

\* The store performs updatePost's findByIdAndUpdate.
UpdatePost(r) ==
  /\ Running(r, "updatePost")
  /\ \E body \in BodyInputs :
       LET h == UpdatePostController(req[r], posts, body)
       IN /\ req' = [req EXCEPT ![r] = h.q]
          /\ posts' = h.store
  /\ UNCHANGED <<deleted, creator, nextId, clock>>
  /\ UNCHANGED <<arrived, authVars>>
  /\ UNCHANGED uiVars

\* The store performs deletePost's findByIdAndDelete.
DeletePost(r) ==
  /\ Running(r, "deletePost")
  /\ LET h == DeletePostController(req[r], posts)
     IN /\ req' = [req EXCEPT ![r] = h.q]
        /\ posts' = h.store
        /\ deleted' = IF h.q.resp.status = 200 THEN deleted \cup {req[r].id.hex}
                       ELSE deleted
  /\ UNCHANGED <<creator, nextId, clock>>
  /\ UNCHANGED <<arrived, authVars>>
  /\ UNCHANGED uiVars

\* The response has been sent; the slot is free again.
Complete(r) ==
  /\ req[r].stage = "done"
  /\ req' = [req EXCEPT ![r] = IdleReq]
  /\ UNCHANGED <<posts, deleted, creator, nextId, clock>>
  /\ UNCHANGED <<arrived, authVars>>
  /\ UNCHANGED uiVars

\* ------------------------------------------------------- the store failing
\* The message of the error a store operation rejects with when the store
\* cannot be reached.
StoreError == "connect ECONNREFUSED 127.0.0.1:27017"

\* The catch block of each function: what it answers when the store operation
\* it awaits rejects with an error carrying `message`.
Catch(q, step, message) ==
  CASE step = "authorize"   -> Json(q, 500, Failure("Error checking authorization"))
    [] step = "getAllPosts" -> Json(q, 500, Failure(message))
    [] step = "getPostById" -> Json(q, 404, Failure(message))
    [] step = "createPost"  -> Json(q, 400, Failure(message))
    [] step = "updatePost"  -> Json(q, 404, Failure(message))
    [] step = "deletePost"  -> Json(q, 404, Failure(message))

\* The store operation the request in slot r awaits rejects before it takes
\* effect: authorize's findById, the handlers' queries, createPost's insert.
StoreFails(r) ==
  /\ ~Responding
  /\ \/ /\ req[r].stage = "run"
        /\ Step(req[r]) \in {"authorize", "getAllPosts", "getPostById", "deletePost"}
        /\ req' = [req EXCEPT ![r] = Catch(Enter(req[r]), Step(req[r]), StoreError)]
     \/ /\ req[r].stage = "run"
        /\ Step(req[r]) = "updatePost"
        /\ \E body \in BodyInputs :
             /\ ~(Falsy(body.title) \/ Falsy(body.content))
             /\ req' = [req EXCEPT ![r] =
                          Catch([Enter(req[r]) EXCEPT !.body = Destructure(body)],
                                "updatePost", StoreError)]
     \/ /\ req[r].stage = "insert"
        /\ req' = [req EXCEPT ![r] = Catch(req[r], "createPost", StoreError)]
  /\ UNCHANGED <<posts, deleted, creator, nextId, clock>>
  /\ UNCHANGED <<arrived, authVars>>
  /\ UNCHANGED uiVars

\* createPost's insert is stored, then `post.populate` rejects.
PopulateFails(r) ==
  /\ ~Responding
  /\ req[r].stage = "insert"
  /\ posts' = CreatePostInsert(posts, req[r].doc).store
  /\ req' = [req EXCEPT ![r] = Catch(req[r], "createPost", StoreError)]
  /\ UNCHANGED <<deleted, creator, nextId, clock>>
  /\ UNCHANGED <<arrived, authVars>>
  /\ UNCHANGED uiVars

\* ------------------------------------------------------- users
\* The password hash the User model stores (bcrypt in a pre-save hook).
Hash(password) == <<"hash", password>>

UserDoc(id, name, email, password) ==
  [_id |-> id, name |-> name, email |-> email, password |-> Hash(password)]

\* ------------------------------------------------------- models/User.js, utils/jwt.js
\* User.findOne({email}): a document with that email, or null.
FindOneByEmail(store, email) ==
  LET m == {u \in store : u.email = email}
  IN IF m = {} THEN {Null} ELSE m

\* Mutant: the email path has no unique index.
UserCreateNoIndex(store, id, name, email, password) ==
  Ok(store \cup {UserDoc(id, name, email, password)}, UserDoc(id, name, email, password))

\* User.create({name, email, password}): the email path carries a unique
\* index, so the insert of a second document with the email is refused.
UserCreate(store, id, name, email, password) ==
  IF \E u \in store : u.email = email
    THEN Throw(store, "E11000 duplicate key error")
  ELSE Ok(store \cup {UserDoc(id, name, email, password)},
          UserDoc(id, name, email, password))

\* user.comparePassword(candidate): bcrypt.compare against the stored hash.
ComparePassword(user, candidate) == user.password = Hash(candidate)

\* generateToken(id): a signed token whose subject is id.
GenerateToken(id) == [sub |-> id, sig |-> "ok", exp |-> "live"]

\* ------------------------------------------------------- services/authService.js
Names == {"ann"}
Emails == {"ann@x", "bob@x"}
Passwords == {"pw1", "pw2"}

IdleAuth == [stage |-> "idle"]

\* Mutant: the token is generated for the first user's id.
UserResponseTokenOfFirst(user) ==
  [id |-> user._id, name |-> user.name, email |-> user.email,
   token |-> GenerateToken(1)]

\* const userResponse = { id: user._id, name, email, token }
UserResponse(user) ==
  [id |-> user._id, name |-> user.name, email |-> user.email,
   token |-> GenerateToken(user._id)]

Resolve(c, user) == [c EXCEPT !.stage = "done", !.result = [ok |-> TRUE, value |-> UserResponse(user)]]
Reject(c, message) == [c EXCEPT !.stage = "done", !.result = [ok |-> FALSE, error |-> message]]

NewCall(op, name, email, password) ==
  [stage |-> "run", op |-> op, name |-> name, email |-> email, password |-> password,
   result |-> Null]

\* register up to User.create: `existingUser` is what findOne answered.
RegisterLookup(c, existingUser) ==
  IF existingUser # Null THEN Reject(c, "User already exists with this email")
  ELSE [c EXCEPT !.stage = "create"]

\* register from User.create on.
RegisterCreate(c, store, id) ==
  LET res == UserCreate(store, id, c.name, c.email, c.password)
  IN IF res.ok THEN Handled(Resolve(c, res.value), res.store)
     ELSE Handled(Reject(c, res.error), res.store)

\* Mutant: an unknown email gets a message of its own.
LoginServiceTellsApart(c, user) ==
  IF user = Null THEN Reject(c, "User not found")
  ELSE IF ~ComparePassword(user, c.password) THEN Reject(c, "Invalid credentials")
  ELSE Resolve(c, user)

\* login: `user` is what findOne answered.
LoginService(c, user) ==
  IF user = Null THEN Reject(c, "Invalid credentials")
  ELSE IF ~ComparePassword(user, c.password) THEN Reject(c, "Invalid credentials")
  ELSE Resolve(c, user)

\* ------------------------------------------------------- auth calls: the steps
\* The answer goes back to the caller before any other step is taken.
Answering == \E s \in AuthSlots : areq[s].stage = "done"

\* A register call starts; the store answers its findOne.
RegisterFind(a) ==
  /\ ~Answering
  /\ areq[a] = IdleAuth
  /\ called < MaxAuthCalls
  /\ called' = called + 1
  /\ \E name \in Names, email \in Emails, password \in Passwords :
       \E existingUser \in FindOneByEmail(users, email) :
          areq' = [areq EXCEPT ![a] =
                     RegisterLookup(NewCall("register", name, email, password),
                                    existingUser)]
  /\ UNCHANGED <<users, nextUid>>
  /\ UNCHANGED postVars
  /\ UNCHANGED uiVars

\* The store performs register's User.create.
RegisterInsert(a) ==
  /\ ~Answering
  /\ areq[a].stage = "create"
  /\ LET h == RegisterCreate(areq[a], users, nextUid)
     IN /\ areq' = [areq EXCEPT ![a] = h.q]
        /\ users' = h.store
        /\ nextUid' = IF h.q.result.ok THEN nextUid + 1 ELSE nextUid
  /\ UNCHANGED called
  /\ UNCHANGED postVars
  /\ UNCHANGED uiVars

\* A login call: the store answers its findOne, the password is compared.
Login(a) ==
  /\ ~Answering
  /\ areq[a] = IdleAuth
  /\ called < MaxAuthCalls
  /\ called' = called + 1
  /\ \E email \in Emails, password \in Passwords :
       \E user \in FindOneByEmail(users, email) :
          areq' = [areq EXCEPT ![a] = LoginService(NewCall("login", "", email, password), user)]
  /\ UNCHANGED <<users, nextUid>>
  /\ UNCHANGED postVars
  /\ UNCHANGED uiVars

\* The caller has its answer; the slot is free again.
Return(a) ==
  /\ areq[a].stage = "done"
  /\ areq' = [areq EXCEPT ![a] = IdleAuth]
  /\ UNCHANGED <<users, nextUid, called>>
  /\ UNCHANGED postVars
  /\ UNCHANGED uiVars

\* ------------------------------------------------------- frontend: AuthProvider
\* Calls AuthProvider may await at the same time.
UiSlots == {1, 2}

\* JavaScript truthiness of null, an object or a non-empty string.
Truthy(v) == v # Null

\* JSON.stringify of an object, and JSON.parse of what getItem returned
\* (JSON.parse(null) is null).
Stringify(o) == [json |-> o]
Parse(item) == IF item = Null THEN Null ELSE item.json

\* localStorage.getItem of an item that is not there is null.
EmptyStorage == [token |-> Null, user |-> Null]

\* useState(null), useState(true), useState(null)
AuthInitial == [user |-> Null, token |-> Null, loading |-> TRUE]

\* isAuthenticated: !!user
IsAuthenticated(a) == Truthy(a.user)

\* Mutant: the mount effect tests storedToken || storedUser.
RestoreEither(a, storage) ==
  IF Truthy(storage.token) \/ Truthy(storage.user)
    THEN [a EXCEPT !.token = storage.token, !.user = Parse(storage.user),
                   !.loading = FALSE]
  ELSE [a EXCEPT !.loading = FALSE]

\* The mount effect: restore the session when both items are stored.
Restore(a, storage) ==
  IF Truthy(storage.token) /\ Truthy(storage.user)
    THEN [a EXCEPT !.token = storage.token, !.user = Parse(storage.user),
                   !.loading = FALSE]
  ELSE [a EXCEPT !.loading = FALSE]

\* What registerService / loginService resolve with: response.data of a 2xx.
SessionData ==
  {UserResponse(UserDoc(1, "ann", "ann@x", "pw1")),
   UserResponse(UserDoc(2, "bob", "bob@x", "pw2"))}

\* { id: data.id, name: data.name, email: data.email }
SessionUser(data) == [id |-> data.id, name |-> data.name, email |-> data.email]

\* How an awaited register/login call ends: the service resolves and both
\* setItem succeed, the service rejects, or a setItem throws (storage full or
\* disabled) on the token or on the user.
Outcomes ==
  [kind : {"resolved", "tokenItemThrows", "userItemThrows"}, data : SessionData]
    \cup {[kind |-> "rejected", message |-> "Invalid credentials"]}

\* The message of the caught error that the caller gets back:
\* error.response?.data?.message, else (login only) error.message, else the
\* fixed text.
CaughtMessage(op, outcome) ==
  IF outcome.kind = "rejected" THEN outcome.message
  ELSE IF op = "login" THEN "QuotaExceededError"
  ELSE "Registration failed"

\* register / login from the await on: the body of the try, or the catch.
\* Returns the state, the storage and what the caller gets back.
Submit(op, a, storage, outcome) ==
  CASE outcome.kind = "resolved" ->
         [auth |-> [a EXCEPT !.token = outcome.data.token,
                             !.user = SessionUser(outcome.data)],
          storage |-> [token |-> outcome.data.token,
                       user |-> Stringify(SessionUser(outcome.data))],
          result |-> [success |-> TRUE]]
    [] outcome.kind = "rejected" ->
         [auth |-> a, storage |-> storage,
          result |-> [success |-> FALSE, message |-> CaughtMessage(op, outcome)]]
    [] outcome.kind = "tokenItemThrows" ->
         [auth |-> a, storage |-> storage,
          result |-> [success |-> FALSE, message |-> CaughtMessage(op, outcome)]]
    [] outcome.kind = "userItemThrows" ->
         [auth |-> a, storage |-> [storage EXCEPT !.token = outcome.data.token],
          result |-> [success |-> FALSE, message |-> CaughtMessage(op, outcome)]]

\* logoutService deletes the token on the client; the user item goes with it
\* or stays.
LogoutService(storage) == {EmptyStorage, [storage EXCEPT !.token = Null]}

\* logout: setUser(null), setToken(null)
SignedOut(a) == [a EXCEPT !.user = Null, !.token = Null]

NoCall == [op |-> "none"]

\* The page loads: AuthProvider is mounted with its initial state, and what
\* the page before awaited is gone.
PageLoad ==
  /\ auth' = AuthInitial
  /\ calls' = [c \in UiSlots |-> NoCall]
  /\ UNCHANGED <<localStorage, location, view, fetches, deletes>>
  /\ UNCHANGED <<postVars, authVars>>

\* useEffect(..., []) after the first render.
MountEffect ==
  /\ auth.loading
  /\ auth' = Restore(auth, localStorage)
  /\ UNCHANGED <<localStorage, calls, location, view, fetches, deletes>>
  /\ UNCHANGED <<postVars, authVars>>

\* register(userData) or login(credentials) is called and awaits its service.
CallAuth(c) ==
  /\ ~auth.loading
  /\ calls[c] = NoCall
  /\ \A d \in UiSlots : d < c => calls[d] # NoCall
  /\ \E op \in {"register", "login"} : calls' = [calls EXCEPT ![c] = [op |-> op]]
  /\ UNCHANGED <<auth, localStorage, location, view, fetches, deletes>>
  /\ UNCHANGED <<postVars, authVars>>

\* The awaited service settles; register / login runs to its return.
AuthSettles(c) ==
  /\ calls[c] # NoCall
  /\ \E outcome \in Outcomes :
       LET h == Submit(calls[c].op, auth, localStorage, outcome)
       IN auth' = h.auth /\ localStorage' = h.storage
  /\ calls' = [calls EXCEPT ![c] = NoCall]
  /\ UNCHANGED <<location, view, fetches, deletes>>
  /\ UNCHANGED <<postVars, authVars>>

Logout ==
  /\ ~auth.loading
  /\ \E storage \in LogoutService(localStorage) : localStorage' = storage
  /\ auth' = SignedOut(auth)
  /\ UNCHANGED <<calls, location, view, fetches, deletes>>
  /\ UNCHANGED <<postVars, authVars>>

\* ------------------------------------------------------- frontend: PostView
Home == [path |-> "/"]
\* <Route path="/posts/:id" element={<PostView />} />
PostRoute(p) == [path |-> "/posts/:id", id |-> p]

Unmounted == [mounted |-> FALSE]
\* The useState initial values of PostView.
ViewInitial ==
  [mounted |-> TRUE, post |-> Null, loading |-> TRUE, error |-> "", deleting |-> FALSE,
   showDeleteConfirm |-> FALSE, alertMessage |-> "", alertType |-> "error",
   showAlert |-> FALSE]

\* What PostView returns: the spinner, the error page, or the post.
Rendering(v) ==
  IF ~v.mounted THEN "nothing"
  ELSE IF v.loading THEN "spinner"
  ELSE IF v.error # "" \/ ~Truthy(v.post) THEN "error"
  ELSE "post"

\* const isOwner = user && post && user.id === post.authorId._id
ViewIsOwner(a, v) ==
  Truthy(a.user) /\ Truthy(v.post) /\ Truthy(v.post.authorId)
    /\ a.user.id = v.post.authorId._id

\* fetchPost: before the await, after it resolved, after it rejected.
FetchStarted(v) == [v EXCEPT !.loading = TRUE]
FetchResolved(v, data) == [v EXCEPT !.post = data, !.error = "", !.loading = FALSE]
FetchRejected(v) == [v EXCEPT !.error = "Failed to load post", !.loading = FALSE]

HandleDeleteClick(v) == [v EXCEPT !.showDeleteConfirm = TRUE]

\* handleDeleteConfirm up to its await: the state, and the ids deletePost is
\* called for (`id` is the route parameter of the render).
HandleDeleteConfirm(v, id) ==
  [view |-> [v EXCEPT !.showDeleteConfirm = FALSE, !.deleting = TRUE], request |-> {id}]

\* Mutant: cancelling runs the delete as well.
HandleDeleteCancelDeletes(v, id) ==
  [view |-> [v EXCEPT !.showDeleteConfirm = FALSE], request |-> {id}]

HandleDeleteCancel(v, id) ==
  [view |-> [v EXCEPT !.showDeleteConfirm = FALSE], request |-> {}]

\* The catch of handleDeleteConfirm: setDeleting(false), showAlertMessage(...).
DeleteFailed(v) ==
  [v EXCEPT !.deleting = FALSE,
            !.alertMessage = "Failed to delete post. Please try again.",
            !.alertType = "error", !.showAlert = TRUE]

\* A deletePost call in flight: its id, and whether the PostView that made it
\* is still mounted (state updates of an unmounted component are dropped).
DeleteCall(id, live) == [id |-> id, live |-> live]
Detached(calls_) == {DeleteCall(d.id, FALSE) : d \in calls_}

\* The route becomes /posts/p: PostView is mounted, or stays mounted with a
\* new id; the effect on [id] runs fetchPost.
OpenPost(p) ==
  /\ location # PostRoute(p)
  /\ location' = PostRoute(p)
  /\ view' = FetchStarted(IF view.mounted THEN view ELSE ViewInitial)
  /\ fetches' = fetches \cup {p}
  /\ UNCHANGED <<auth, localStorage, calls, deletes>>
  /\ UNCHANGED <<postVars, authVars>>

\* getPostById(p) resolves with the post the server holds under p.
FetchResolves(p) ==
  /\ p \in fetches
  /\ GetPostByIdService(posts, p).ok
  /\ view' = FetchResolved(view, GetPostByIdService(posts, p).value)
  /\ fetches' = fetches \ {p}
  /\ UNCHANGED <<auth, localStorage, calls, location, deletes>>
  /\ UNCHANGED <<postVars, authVars>>

\* getPostById(p) rejects (a 404, or the server is not reached).
FetchRejects(p) ==
  /\ p \in fetches
  /\ view' = FetchRejected(view)
  /\ fetches' = fetches \ {p}
  /\ UNCHANGED <<auth, localStorage, calls, location, deletes>>
  /\ UNCHANGED <<postVars, authVars>>

\* The user clicks Delete: the button is rendered for the owner of the post
\* shown, is disabled while deleting, and lies under the dialog's backdrop.
ClickDelete ==
  /\ Rendering(view) = "post"
  /\ ViewIsOwner(auth, view)
  /\ ~view.deleting
  /\ ~view.showDeleteConfirm
  /\ view' = HandleDeleteClick(view)
  /\ UNCHANGED <<auth, localStorage, calls, location, fetches, deletes>>
  /\ UNCHANGED <<postVars, authVars>>

\* The user clicks the dialog's confirm button.
ConfirmDelete ==
  /\ Rendering(view) = "post"
  /\ view.showDeleteConfirm
  /\ LET h == HandleDeleteConfirm(view, location.id)
     IN /\ view' = h.view
        /\ deletes' = deletes \cup {DeleteCall(d, TRUE) : d \in h.request}
  /\ UNCHANGED <<auth, localStorage, calls, location, fetches>>
  /\ UNCHANGED <<postVars, authVars>>

\* The user clicks the dialog's cancel button or its backdrop.
CancelDelete ==
  /\ Rendering(view) = "post"
  /\ view.showDeleteConfirm
  /\ LET h == HandleDeleteCancel(view, location.id)
     IN /\ view' = h.view
        /\ deletes' = deletes \cup {DeleteCall(d, TRUE) : d \in h.request}
  /\ UNCHANGED <<auth, localStorage, calls, location, fetches>>
  /\ UNCHANGED <<postVars, authVars>>

\* deletePost resolves: the server removed the caller's post; navigate('/').
DeleteResolves(d) ==
  /\ d \in deletes
  /\ DeletePostService(posts, d.id).ok
  /\ Truthy(auth.user) /\ posts[d.id.hex].authorId = auth.user.id
  /\ posts' = DeletePostService(posts, d.id).store
  /\ deleted' = deleted \cup {d.id.hex}
  /\ location' = Home
  /\ view' = Unmounted
  /\ fetches' = {}
  /\ deletes' = Detached(deletes \ {d})
  /\ UNCHANGED <<auth, localStorage, calls>>
  /\ UNCHANGED <<creator, nextId, clock, req, arrived, authVars>>

\* deletePost rejects (403, 404, or the server is not reached).
DeleteRejects(d) ==
  /\ d \in deletes
  /\ deletes' = deletes \ {d}
  /\ view' = IF d.live THEN DeleteFailed(view) ELSE view
  /\ UNCHANGED <<auth, localStorage, calls, location, fetches>>
  /\ UNCHANGED <<postVars, authVars>>

\* handleCloseAlert, or the five-second timer of showAlertMessage.
HideAlert ==
  /\ view.mounted
  /\ view.showAlert
  /\ view' = [view EXCEPT !.showAlert = FALSE]
  /\ UNCHANGED <<auth, localStorage, calls, location, fetches, deletes>>
  /\ UNCHANGED <<postVars, authVars>>

\* The user follows a link to "/": PostView is unmounted.
GoHome ==
  /\ view.mounted
  /\ location' = Home
  /\ view' = Unmounted
  /\ fetches' = {}
  /\ deletes' = Detached(deletes)
  /\ UNCHANGED <<auth, localStorage, calls>>
  /\ UNCHANGED <<postVars, authVars>>

\* No page is open in a browser.
NoBrowser ==
  /\ auth = AuthInitial
  /\ localStorage = EmptyStorage
  /\ calls = [c \in UiSlots |-> NoCall]
  /\ location = Home
  /\ view = Unmounted
  /\ fetches = {}
  /\ deletes = {}

\* ------------------------------------------------------- the specifications
\* The post requests start on an empty posts collection or on one that holds
\* a post ann created earlier.
FirstPost == NewPost(1, <<"a">>, <<"x">>, 1, 0)

Init ==
  /\ \/ posts = <<>> /\ creator = <<>> /\ nextId = 1
     \/ posts = <<FirstPost>> /\ creator = <<1>> /\ nextId = 2
  /\ deleted = {}
  /\ clock = 0
  /\ req = [r \in Slots |-> IdleReq]
  /\ arrived = 0
  /\ users = {UserDoc(1, "ann", "ann@x", "pw1"), UserDoc(2, "bob", "bob@x", "pw2")}
  /\ nextUid = 3
  /\ areq = [a \in AuthSlots |-> IdleAuth]
  /\ called = 0
  /\ NoBrowser

Next ==
  \/ \E r \in Slots : Arrive(r)
  \/ \E r \in Slots : Authenticate(r)
  \/ \E r \in Slots : Authorize(r)
  \/ \E r \in Slots : GetAllPosts(r)
  \/ \E r \in Slots : GetPostById(r)
  \/ \E r \in Slots : CreatePost(r)
  \/ \E r \in Slots : CreatePostStore(r)
  \/ \E r \in Slots : UpdatePost(r)
  \/ \E r \in Slots : DeletePost(r)
  \/ \E r \in Slots : Complete(r)

Spec == Init /\ [][Next]_vars

\* The post requests with a store that may fail.
NextFault ==
  \/ Next
  \/ \E r \in Slots : StoreFails(r)
  \/ \E r \in Slots : PopulateFails(r)

SpecFault == Init /\ [][NextFault]_vars

\* The auth service on an empty users collection.
InitAuth ==
  /\ posts = <<>>
  /\ deleted = {}
  /\ creator = <<>>
  /\ nextId = 1
  /\ clock = 0
  /\ req = [r \in Slots |-> IdleReq]
  /\ arrived = 0
  /\ users = {}
  /\ nextUid = 1
  /\ areq = [a \in AuthSlots |-> IdleAuth]
  /\ called = 0
  /\ NoBrowser

NextAuth ==
  \/ \E a \in AuthSlots : RegisterFind(a)
  \/ \E a \in AuthSlots : RegisterInsert(a)
  \/ \E a \in AuthSlots : Login(a)
  \/ \E a \in AuthSlots : Return(a)

SpecAuth == InitAuth /\ [][NextAuth]_vars

\* AuthProvider in a browser whose localStorage holds what earlier pages left.
StoredSessions ==
  [token : {Null, GenerateToken(1)},
   user : {Null, Stringify([id |-> 1, name |-> "ann", email |-> "ann@x"])}]

InitSession ==
  /\ posts = <<>>
  /\ deleted = {}
  /\ creator = <<>>
  /\ nextId = 1
  /\ clock = 0
  /\ req = [r \in Slots |-> IdleReq]
  /\ arrived = 0
  /\ users = {}
  /\ nextUid = 1
  /\ areq = [a \in AuthSlots |-> IdleAuth]
  /\ called = 0
  /\ auth = AuthInitial
  /\ localStorage \in StoredSessions
  /\ calls = [c \in UiSlots |-> NoCall]
  /\ location = Home
  /\ view = Unmounted
  /\ fetches = {}
  /\ deletes = {}

NextSession ==
  \/ PageLoad
  \/ MountEffect
  \/ \E c \in UiSlots : CallAuth(c)
  \/ \E c \in UiSlots : AuthSettles(c)
  \/ Logout

SpecSession == InitSession /\ [][NextSession]_vars

\* PostView in a browser, signed in as ann or signed out, against a server
\* that holds a post of ann and a post of bob.
SecondPost == NewPost(2, <<"b">>, <<"x">>, 2, MaxClock)

InitView ==
  /\ posts = <<FirstPost, SecondPost>>
  /\ deleted = {}
  /\ creator = <<1, 2>>
  /\ nextId = 3
  /\ clock = MaxClock
  /\ req = [r \in Slots |-> IdleReq]
  /\ arrived = 0
  /\ users = {UserDoc(1, "ann", "ann@x", "pw1"), UserDoc(2, "bob", "bob@x", "pw2")}
  /\ nextUid = 3
  /\ areq = [a \in AuthSlots |-> IdleAuth]
  /\ called = 0
  /\ \E session \in {Submit("login", AuthInitial, EmptyStorage, o) :
                         o \in {x \in Outcomes : x.kind \in {"resolved", "rejected"}}} :
        /\ auth = [session.auth EXCEPT !.loading = FALSE]
        /\ localStorage = session.storage
  /\ calls = [c \in UiSlots |-> NoCall]
  /\ location = Home
  /\ view = Unmounted
  /\ fetches = {}
  /\ deletes = {}

NextView ==
  \/ \E p \in ParamInputs : OpenPost(p)
  \/ \E p \in ParamInputs : FetchResolves(p)
  \/ \E p \in ParamInputs : FetchRejects(p)
  \/ ClickDelete
  \/ ConfirmDelete
  \/ CancelDelete
  \/ \E d \in deletes : DeleteResolves(d)
  \/ \E d \in deletes : DeleteRejects(d)
  \/ HideAlert
  \/ GoHome

SpecView == InitView /\ [][NextView]_vars

\* ======================================================= properties
Last(seq) == seq[Len(seq)]
Occurs(x, seq) == \E i \in 1..Len(seq) : seq[i] = x
IsPrefix(a, b) == Len(a) <= Len(b) /\ \A i \in 1..Len(a) : a[i] = b[i]

\* Slot r holds a request that has just been answered.
Answered(r) == req[r].stage = "done"
\* Slot r takes the step (no other step changes its record).
Moved(r) == req'[r] # req[r]
\* The path parameter names a stored post.
PostExists(store, p) == IsObjectId(p) /\ p.hex \in DOMAIN store
\* The caller authenticated on the request in slot r owns the stored post it names.
CallerOwns(r) == PostExists(posts, req[r].id) /\ posts[req[r].id.hex].authorId = req[r].user._id

\* ------------------------------------------------------- C1
\* The steps of the ownership rule that both readings of C1 share: authorize
\* answers a caller who does not own the stored post 403 and leaves the store
\* as it is, a stored post is changed or removed only by a step of a request
\* whose caller owns it, and the owner's DELETE of a stored post is answered 200.
C1_NonOwnerRefused(r) ==
  /\ (Running(r, "authorize") /\ PostExists(posts, req[r].id) /\ ~CallerOwns(r))
       => (Answered(r)' /\ req'[r].resp.status = 403 /\ posts' = posts)
  /\ \A i \in DOMAIN posts :
       (i \notin DOMAIN posts' \/ posts'[i] # posts[i])
         => /\ req[r].stage = "run"
            /\ req[r].id = [hex |-> i]
            /\ req[r].user # Null
            /\ req[r].user._id = posts[i].authorId

\* C1 as amended: for every stored post P owned by A, a PUT or DELETE on P by
\* an authenticated caller other than A is answered 403 and leaves P
\* unchanged; the same request by A is answered 200 when P is still stored at
\* the moment the handler's store operation runs and, for PUT, the title is
\* non-empty after trimming and the content is non-empty.
C1_OwnerOnly ==
  [][\A r \in Slots : Moved(r) =>
       /\ C1_NonOwnerRefused(r)
       /\ (Running(r, "deletePost") /\ CallerOwns(r)) => req'[r].resp.status = 200
       /\ (Running(r, "updatePost") /\ CallerOwns(r)
             /\ Required(Trim(req'[r].body.title)) /\ ~Falsy(req'[r].body.content))
            => req'[r].resp.status = 200]_vars

\* C1 as claimed: ... the same request made by A, who owned P when authorize
\* looked it up, with a non-empty title and content for PUT, succeeds with 200.
C1_AsClaimed ==
  [][\A r \in Slots : Moved(r) =>
       /\ C1_NonOwnerRefused(r)
       /\ Running(r, "deletePost") => req'[r].resp.status = 200
       /\ (Running(r, "updatePost")
             /\ ~Falsy(req'[r].body.title) /\ ~Falsy(req'[r].body.content))
            => req'[r].resp.status = 200]_vars

\* A PUT on a stored post by a caller who does not own it has been answered 403.
C1_Witness ==
  \E r \in Slots :
    /\ Answered(r) /\ req[r].method = "PUT" /\ req[r].resp.status = 403
    /\ PostExists(posts, req[r].id) /\ ~CallerOwns(r)

\* ------------------------------------------------------- C2
\* C2: when authorize answers a PUT or DELETE whose id names no stored post,
\* the answer is 404 (never 403, and the same for every caller).
C2_MissingIsNotFound ==
  \A r \in Slots :
    (Answered(r) /\ Last(req[r].ran) = "authorize" /\ ~PostExists(posts, req[r].id))
      => req[r].resp.status = 404

\* ------------------------------------------------------- C3
Mutating == {"createPost", "updatePost", "deletePost"}

\* C3: a create, update or delete handler has run for a request only after
\* authenticate passed for it (a caller is attached) and, for update and
\* delete, after authorize passed too (the post it loaded is attached); the GET
\* routes run their handler alone and hand the store back unchanged.
C3_GatesBeforeHandlers ==
  /\ \A r \in Slots :
       req[r].stage # "idle" =>
         /\ (\E h \in Mutating : Occurs(h, req[r].ran)) =>
              (req[r].ran[1] = "authenticate" /\ req[r].user # Null)
         /\ (Occurs("updatePost", req[r].ran) \/ Occurs("deletePost", req[r].ran)) =>
              (req[r].ran[2] = "authorize" /\ req[r].post # Null)
         /\ req[r].method \in {"GET", "GET_ALL"} =>
              (~Occurs("authenticate", req[r].ran) /\ ~Occurs("authorize", req[r].ran))
  /\ \A r \in Slots :
       /\ Running(r, "getPostById") =>
            GetPostByIdController(req[r], posts).store = posts
       /\ Running(r, "getAllPosts") =>
            \A ids \in FindSorted(posts) :
               GetAllPostsController(req[r], posts, ids).store = posts

\* A POST has created a post, and a DELETE has removed one, each after its gates.
C3_Witness ==
  \E r \in Slots :
    /\ Answered(r) /\ req[r].method = "DELETE" /\ req[r].resp.status = 200
    /\ req[r].ran = <<"authenticate", "authorize", "deletePost">>

\* ------------------------------------------------------- C4
\* C4: on PUT and DELETE /posts/:id the functions run in the order
\* authenticate, authorize, handler, each at most once; a request whose token
\* does not verify is answered 401 by authenticate whatever the id names; a
\* PUT is answered 400 only by the handler, after authorize passed for the
\* caller as the owner of a post that was stored.
C4_GateOrder ==
  \A r \in Slots :
    (req[r].stage # "idle" /\ req[r].method \in {"PUT", "DELETE"}) =>
      /\ IsPrefix(req[r].ran,
                  <<"authenticate", "authorize",
                    IF req[r].method = "PUT" THEN "updatePost" ELSE "deletePost">>)
      /\ Running(r, "authenticate") =>
           \A token \in TokenInputs :
              ~VerifyToken(token).ok =>
                 LET q == AuthenticateGate(req[r], token)
                 IN q.stage = "done" /\ q.resp.status = 401 /\ q.ran = <<"authenticate">>
      /\ (Answered(r) /\ req[r].resp.status = 401) => req[r].ran = <<"authenticate">>
      /\ (Answered(r) /\ req[r].resp.status = 400) =>
           /\ req[r].ran = <<"authenticate", "authorize", "updatePost">>
           /\ req[r].post # Null
           /\ req[r].post.authorId = req[r].user._id
           /\ req[r].post._id = req[r].id.hex

\* The owner's PUT with an empty title or content has been answered 400.
C4_Witness ==
  \E r \in Slots :
    /\ Answered(r) /\ req[r].method = "PUT" /\ req[r].resp.status = 400
    /\ PostExists(posts, req[r].id)

ReadBack(r) == GetPostByIdService(posts, [hex |-> req[r].resp.body.data._id])
Created(r) == Answered(r) /\ req[r].method = "POST" /\ req[r].resp.status = 201

\* C6 as amended: after createPost(title, content) by caller A is answered
\* 201, getPostById of the returned id returns the submitted title with its
\* leading and trailing whitespace removed, the submitted content unchanged,
\* and a non-null owner reference that refers to A.
C6_RoundTripTrimmed ==
  \A r \in Slots :
    Created(r) =>
      /\ ReadBack(r).ok
      /\ ReadBack(r).value.title = Trim(req[r].body.title)
      /\ ReadBack(r).value.content = req[r].body.content
      /\ ReadBack(r).value.authorId # Null
      /\ ReadBack(r).value.authorId._id = req[r].user._id

\* C6 as claimed: ... returns a title and content identical to the ones submitted.
C6_AsClaimed ==
  \A r \in Slots :
    Created(r) =>
      /\ ReadBack(r).ok
      /\ ReadBack(r).value.title = req[r].body.title
      /\ ReadBack(r).value.content = req[r].body.content
      /\ ReadBack(r).value.authorId # Null
      /\ ReadBack(r).value.authorId._id = req[r].user._id

\* A post has been created from a title with surrounding whitespace.
C6_Witness ==
  \E r \in Slots : Created(r) /\ Trim(req[r].body.title) # req[r].body.title

\* ------------------------------------------------------- C7
\* C7: once a DELETE of a post has been answered 200, in every later state
\* getPostById of its id fails with 'Post not found' (answered 404), no
\* getAllPosts result holds it, and deletePost of its id fails with 'Post not
\* found' (answered 404, by authorize or by the handler).
C7_DeletedStaysGone ==
  \A i \in deleted :
    /\ GetPostByIdService(posts, [hex |-> i]) = Throw(posts, "Post not found")
    /\ GetPostByIdController(NewReq("GET", [hex |-> i]), posts).q.resp.status = 404
    /\ \A ids \in FindSorted(posts) :
         \A k \in 1..Len(ids) : GetAllPostsService(posts, ids).value[k]._id # i
    /\ DeletePostService(posts, [hex |-> i]) = Throw(posts, "Post not found")
    /\ DeletePostController([NewReq("DELETE", [hex |-> i]) EXCEPT !.at = 3], posts).q.resp.status = 404
    /\ AuthorizeGate([NewReq("DELETE", [hex |-> i]) EXCEPT !.at = 2], posts).resp.status = 404

\* A GET of a deleted post has been answered 404.
C7_Witness ==
  \E r \in Slots :
    /\ Answered(r) /\ req[r].method = "GET" /\ req[r].resp.status = 404
    /\ IsObjectId(req[r].id) /\ req[r].id.hex \in deleted

\* ------------------------------------------------------- C8
\* A list holds every stored post exactly once, createdAt descending.
CompleteAndSorted(list) ==
  /\ Len(list) = Cardinality(DOMAIN posts)
  /\ \A i \in DOMAIN posts : Cardinality({k \in 1..Len(list) : list[k]._id = i}) = 1
  /\ \A k, l \in 1..Len(list) : k < l => list[k].createdAt >= list[l].createdAt

\* What C8 says in both readings: the shape of every getAllPosts result, and
\* that an update leaves the possible orders as they were.
C8_Sorted ==
  /\ FindSorted(posts) # {}
  /\ \A ids \in FindSorted(posts) : CompleteAndSorted(GetAllPostsService(posts, ids).value)
  /\ \A r \in Slots :
       /\ (Answered(r) /\ req[r].method = "GET_ALL") =>
            (req[r].resp.status = 200 /\ CompleteAndSorted(req[r].resp.body.data))
       /\ Running(r, "updatePost") =>
            \A body \in BodyInputs :
               FindSorted(UpdatePostController(req[r], posts, body).store) = FindSorted(posts)

\* C8 as amended: getAllPosts() returns every stored post exactly once, sorted
\* by createdAt descending; after a successful create the new post is the
\* first element of the next result when every other stored post has an
\* earlier createdAt; an update does not change a post's position.
C8_NewestFirst ==
  /\ C8_Sorted
  /\ \A r \in Slots :
       Created(r) =>
         LET new == req[r].resp.body.data._id
         IN (\A j \in DOMAIN posts \ {new} : posts[j].createdAt < posts[new].createdAt)
               => \A ids \in FindSorted(posts) : ids[1] = new

\* C8 as claimed: after a successful create, the new post is the first
\* element of the next getAllPosts() result.
C8_AsClaimed ==
  /\ C8_Sorted
  /\ \A r \in Slots :
       Created(r) =>
         \A ids \in FindSorted(posts) : ids[1] = req[r].resp.body.data._id

\* A second post has been created and is the newest of the stored posts.
C8_Witness ==
  \E r \in Slots :
    /\ Created(r)
    /\ Cardinality(DOMAIN posts) > 1
    /\ \A j \in DOMAIN posts \ {req[r].resp.body.data._id} :
         posts[j].createdAt < posts[req[r].resp.body.data._id].createdAt

\* ------------------------------------------------------- C9
LoggedIn(a) == areq[a].stage = "done" /\ areq[a].op = "login"
Registered(email) == \E u \in users : u.email = email

\* C9: a login whose email no user holds and a login whose password does not
\* match the holder's fail with one and the same error, 'Invalid credentials';
\* a login with a registered email and its password succeeds as that user.
C9_SameFailure ==
  \A a \in AuthSlots :
    LoggedIn(a) =>
      IF \E u \in users : u.email = areq[a].email /\ u.password = Hash(areq[a].password)
        THEN /\ areq[a].result.ok
             /\ areq[a].result.value.email = areq[a].email
      ELSE areq[a].result = [ok |-> FALSE, error |-> "Invalid credentials"]

\* A login with a registered email and a wrong password has failed.
C9_Witness ==
  \E a \in AuthSlots :
    LoggedIn(a) /\ ~areq[a].result.ok /\ Registered(areq[a].email)

\* ------------------------------------------------------- C10
\* C10: no two stored users have the same email, also when register calls
\* overlap between their findOne and their User.create.
C10_UniqueEmail ==
  \A u, v \in users : u.email = v.email => u = v

\* Two register calls for one email both passed findOne; the second insert was refused.
C10_Witness ==
  \E a \in AuthSlots :
    /\ areq[a].stage = "done" /\ areq[a].op = "register"
    /\ ~areq[a].result.ok /\ areq[a].result.error = "E11000 duplicate key error"
    /\ Registered(areq[a].email)

\* ------------------------------------------------------- C11
RegisterDone(a) == areq[a].stage = "done" /\ areq[a].op = "register"
DuplicateEmail == "User already exists with this email"

\* C11: a register call whose email a stored user holds fails with the
\* duplicate-email error, also when it loses an overlapping registration of
\* the email: every register call that fails fails with that error and has no
\* token, and one that succeeds returns the one stored user with its email.
C11_DuplicateEmailError ==
  \A a \in AuthSlots :
    RegisterDone(a) =>
      IF areq[a].result.ok
        THEN \A u \in users : u.email = areq[a].email => u._id = areq[a].result.value.id
      ELSE /\ areq[a].result.error = DuplicateEmail
           /\ "value" \notin DOMAIN areq[a].result
           /\ Registered(areq[a].email)

\* ------------------------------------------------------- C12
\* C12: the token a successful register or login returns verifies, and its
\* subject is the id returned in the same response, which is the id of the
\* stored user holding the call's email and password and of no other user.
C12_TokenForReturnedId ==
  \A a \in AuthSlots :
    (areq[a].stage = "done" /\ areq[a].result.ok) =>
      LET out == areq[a].result.value
      IN /\ VerifyToken(out.token) = [ok |-> TRUE, sub |-> out.id]
         /\ \E u \in users : /\ u._id = out.id
                             /\ u.email = areq[a].email
                             /\ ComparePassword(u, areq[a].password)
         /\ \A u \in users : u._id # out.id => VerifyToken(out.token).sub # u._id

\* A login has succeeded as the second registered user.
C12_Witness ==
  \E a \in AuthSlots :
    /\ LoggedIn(a) /\ areq[a].result.ok
    /\ areq[a].result.value.id > 1
    /\ Cardinality(users) > 1

\* ------------------------------------------------------- C13
\* The body of the PUT in slot r passes the controller's check and the
\* schema's validators.
ValidUpdate(body) == Required(Trim(body.title)) /\ ~Falsy(body.content)
\* A request in slot s has passed authorize for post i and waits for its store write.
Authorized(s, method, i) ==
  /\ req[s].stage = "run" /\ req[s].method = method /\ req[s].at = 3
  /\ req[s].id = [hex |-> i] /\ req[s].post # Null

\* C13: each of two overlapping valid updates of a stored post by its owner
\* passes authorize and is answered 200 whatever the other wrote in between,
\* and each write sets the post's title and content together to those of its
\* own request: the stored pair is always that of the last write, never the
\* title of one request with the content of the other.
C13_LastWriterWins ==
  [][/\ \A r \in Slots :
          (Moved(r) /\ Running(r, "updatePost") /\ PostExists(posts, req[r].id)
             /\ ValidUpdate(req'[r].body))
            => /\ req[r].post # Null
               /\ req'[r].resp.status = 200
               /\ posts' = [posts EXCEPT ![req[r].id.hex] =
                              [@ EXCEPT !.title = Trim(req'[r].body.title),
                                        !.content = req'[r].body.content]]
     /\ \A i \in DOMAIN posts \cap DOMAIN posts' :
          posts'[i] # posts[i] =>
            \E r \in Slots :
               /\ Moved(r) /\ Running(r, "updatePost") /\ req[r].id = [hex |-> i]
               /\ posts'[i].title = Trim(req'[r].body.title)
               /\ posts'[i].content = req'[r].body.content]_vars

\* An update has been answered 200 while a second update of the post, which
\* passed authorize before that write, waits for its own write.
C13_Witness ==
  \E r, s \in Slots :
    /\ r # s
    /\ Answered(r) /\ req[r].method = "PUT" /\ req[r].resp.status = 200
    /\ Authorized(s, "PUT", req[r].id.hex)
    /\ posts[req[r].id.hex].title # req[s].post.title
    /\ posts[req[r].id.hex].content # req[s].post.content

\* ------------------------------------------------------- C14
\* A field is empty after trimming and tag-stripping: missing, empty,
\* whitespace only, or markup with no text.
EmptyText(v) == v = Undefined \/ Trim(StripTags(v)) = <<>>

\* C14: an authenticated POST /posts whose title or content is empty after
\* trimming and tag-stripping is answered 400; one whose title and content
\* are both non-empty then is answered 201 with the created post.
C14_EmptyRejected ==
  \A r \in Slots :
    (Answered(r) /\ req[r].method = "POST" /\ Last(req[r].ran) = "createPost") =>
      IF EmptyText(req[r].body.title) \/ EmptyText(req[r].body.content)
        THEN req[r].resp.status = 400
      ELSE /\ req[r].resp.status = 201
           /\ PostExists(posts, [hex |-> req[r].resp.body.data._id])

\* ------------------------------------------------------- C15
\* C15: when the store operation of a post request (list, get, create,
\* update, delete, or the authorize gate) fails unexpectedly, the request is
\* answered 500 with a message that is not the text of the internal error.
C15_GenericInternalError ==
  [][\A r \in Slots :
       (StoreFails(r) \/ PopulateFails(r)) =>
          /\ req'[r].resp.status = 500
          /\ req'[r].resp.body.message # StoreError]_vars

\* ------------------------------------------------------- C20
\* C20: when a create-post request ends in failure (any answer other than
\* 201), the store holds no post created by that request, also when the step
\* that failed is the populate that follows the insert.
C20_FailedCreateStoresNothing ==
  \A r \in Slots :
    (Answered(r) /\ req[r].method = "POST" /\ req[r].resp.status # 201) =>
      (req[r].doc = Null \/ ~PostExists(posts, [hex |-> req[r].doc._id]))

\* ------------------------------------------------------- C16
\* A response written by a post handler or by the authorize gate.
FromPostEndpoint(r) == Answered(r) /\ Last(req[r].ran) # "authenticate"
SuccessFlagMatches(r) ==
  /\ "success" \in DOMAIN req[r].resp.body
  /\ req[r].resp.body.success = (req[r].resp.status \in 200..299)

\* C16 as amended: every response of the post endpoints and of the authorize
\* gate has the envelope {success, message?, data?}, the 200 of GET /posts
\* carrying count (the number of posts in data) as well, with success true
\* exactly when the status code is 2xx.
C16_Envelope ==
  \A r \in Slots :
    FromPostEndpoint(r) =>
      /\ SuccessFlagMatches(r)
      /\ IF req[r].method = "GET_ALL" /\ req[r].resp.status = 200
           THEN /\ DOMAIN req[r].resp.body = {"success", "count", "data"}
                /\ req[r].resp.body.count = Len(req[r].resp.body.data)
         ELSE DOMAIN req[r].resp.body \subseteq {"success", "message", "data"}

\* C16 as claimed: ... the envelope {success, message?, data?} and no other field.
C16_AsClaimed ==
  \A r \in Slots :
    FromPostEndpoint(r) =>
      /\ SuccessFlagMatches(r)
      /\ DOMAIN req[r].resp.body \subseteq {"success", "message", "data"}

\* GET /posts has been answered with a list that holds a post.
C16_Witness ==
  \E r \in Slots :
    /\ FromPostEndpoint(r) /\ req[r].method = "GET_ALL"
    /\ req[r].resp.status = 200 /\ req[r].resp.body.count > 0

\* ------------------------------------------------------- C17
\* C17: a PUT by the owner on a stored post that the handler rejects (the
\* post is there, so what it rejects is the title or the content) is answered
\* 400, never 404, and leaves the store as it is.
C17_InvalidUpdateIs400 ==
  [][\A r \in Slots :
       (Moved(r) /\ Running(r, "updatePost") /\ PostExists(posts, req[r].id)
          /\ req'[r].resp.status # 200)
         => /\ ~ValidUpdate(req'[r].body)
            /\ req'[r].resp.status = 400
            /\ posts' = posts]_vars

\* ------------------------------------------------------- C18
\* C18: when authorize passes the post it loaded is attached to the request,
\* and the update or delete handler that follows acts on that post: having
\* no lookup of its own, it never answers that the post was not found.
C18_NoSecondLookup ==
  \A r \in Slots :
    (Answered(r) /\ Last(req[r].ran) \in {"updatePost", "deletePost"}) =>
      /\ req[r].post # Null
      /\ req[r].post._id = req[r].id.hex
      /\ ~(req[r].resp.status = 404 /\ req[r].resp.body.message = "Post not found")

\* ------------------------------------------------------- C19
\* C19: an update that passed authorize and reaches its store write after a
\* concurrent delete removed the post is answered 404 and leaves the store
\* as it is; no step brings a deleted post back; a delete handler answers
\* 200 and removes the post when it is stored and answers 404 otherwise, so
\* of two overlapping deletes of a post one is answered 200 and one 404.
C19_UpdateLosesToDelete ==
  [][/\ \A r \in Slots :
          Moved(r) =>
            /\ (Running(r, "updatePost") /\ ~PostExists(posts, req[r].id)
                  /\ ~Falsy(req'[r].body.title) /\ ~Falsy(req'[r].body.content))
                 => (req'[r].resp.status = 404 /\ posts' = posts)
            /\ Running(r, "deletePost") =>
                 IF PostExists(posts, req[r].id)
                   THEN /\ req'[r].resp.status = 200
                        /\ DOMAIN posts' = DOMAIN posts \ {req[r].id.hex}
                 ELSE req'[r].resp.status = 404 /\ posts' = posts
     /\ \A i \in deleted : i \notin DOMAIN posts /\ i \notin DOMAIN posts']_vars

\* An update that passed authorize has been answered 404 after a concurrent
\* delete of its post was answered 200.
C19_Witness ==
  \E r \in Slots :
    /\ Answered(r) /\ req[r].method = "PUT" /\ Last(req[r].ran) = "updatePost"
    /\ req[r].resp.status = 404
    /\ req[r].id.hex \in deleted
    /\ ValidUpdate(req[r].body)

\* ------------------------------------------------------- C21
\* C21: in every state of AuthProvider, user is null exactly when token is
\* null and isAuthenticated is true exactly when user is non-null; a register
\* or login that fails, however it fails, leaves user and token as they were;
\* the mount effect restores user and token when both items are stored and
\* leaves them null otherwise; logout leaves both null.
C21_SessionConsistent ==
  /\ (auth.user = Null) <=> (auth.token = Null)
  /\ IsAuthenticated(auth) <=> (auth.user # Null)
  /\ \A op \in {"register", "login"}, outcome \in Outcomes :
       LET h == Submit(op, auth, localStorage, outcome)
       IN IF h.result.success
            THEN h.auth.user # Null /\ h.auth.token # Null
          ELSE h.auth.user = auth.user /\ h.auth.token = auth.token
  /\ auth.loading =>
       LET a == Restore(auth, localStorage)
       IN IF localStorage.token # Null /\ localStorage.user # Null
            THEN a.token = localStorage.token /\ a.user = Parse(localStorage.user)
          ELSE a.user = Null /\ a.token = Null
  /\ SignedOut(auth).user = Null /\ SignedOut(auth).token = Null

\* The mount effect has run on a storage that holds a token and no user, and
\* has restored nothing.
C21_Witness ==
  /\ ~auth.loading
  /\ localStorage.token # Null /\ localStorage.user = Null
  /\ auth.user = Null /\ auth.token = Null

\* ------------------------------------------------------- C22
\* C22: PostView sends a delete request only in the step in which the user
\* confirms in the dialog, and the dialog opens only by a click on Delete
\* while the post is shown to its owner and no delete is running; cancelling
\* sends nothing and leaves the post displayed; a delete that succeeds
\* navigates to the home page; a delete that fails re-enables the Delete
\* button and shows an error alert.
C22_DeleteAfterConfirm ==
  [][/\ (\E d \in deletes' \ deletes : d.live) =>
          /\ Rendering(view) = "post" /\ view.showDeleteConfirm
          /\ ~view'.showDeleteConfirm /\ view'.deleting
          /\ deletes' = deletes \cup {DeleteCall(location.id, TRUE)}
     /\ (view'.mounted /\ view'.showDeleteConfirm
           /\ ~(view.mounted /\ view.showDeleteConfirm)) =>
          /\ Rendering(view) = "post" /\ ViewIsOwner(auth, view) /\ ~view.deleting
          /\ deletes' = deletes
     /\ CancelDelete =>
          /\ deletes' = deletes
          /\ Rendering(view') = "post" /\ view'.post = view.post
          /\ ~view'.showDeleteConfirm
     /\ \A d \in deletes :
          /\ DeleteResolves(d) => location' = Home
          /\ (DeleteRejects(d) /\ d.live) =>
               /\ ~view'.deleting
               /\ view'.showAlert /\ view'.alertType = "error"
               /\ view'.alertMessage = "Failed to delete post. Please try again."]_vars

\* A confirmed delete has failed: the alert is shown and Delete is enabled again.
C22_Witness ==
  /\ view.mounted /\ view.showAlert /\ ~view.deleting
  /\ view.alertMessage = "Failed to delete post. Please try again."
  /\ deletes = {}

\* ------------------------------------------------------- C23
\* C23: whenever PostView has finished loading and shows a post, that post is
\* the one whose id is the current route parameter.
C23_ShowsRoutePost ==
  Rendering(view) = "post" => location = PostRoute([hex |-> view.post._id])

====
